---- MODULE Spec2Model ----
(***************************************************************************)
(* A state-machine model of the Darukaa.Earth backend: the auth, projects  *)
(* and sites routers (backend/app/api/v1), the security layer              *)
(* (backend/app/core/security.py) and the tables they read and write.      *)
(*                                                                         *)
(* Units.  Time is counted in ticks, TicksPerSecond to the second, so that *)
(* the whole-second "exp" claim of a token can be told from the clock that *)
(* produced it.  Areas are thousandths of a hectare, coordinates are       *)
(* thousandths of a degree, analytics values are kept in the unit of their *)
(* rounding (hundredths or tenths).  A random draw is a number of          *)
(* DrawSteps-ths of the way from the low to the high end of its interval.  *)
(*                                                                         *)
(* Optional values: None is <<>>, a present value v is <<v>>.              *)
(*                                                                         *)
(* A handler is one action.  Where the order of two requests' commits      *)
(* matters, register, create_site and delete_project are also given in     *)
(* their steps, and inflight holds the requests between their steps.       *)
(***************************************************************************)
EXTENDS Integers, Sequences, FiniteSets, TLC

\* ---------------------------------------------------------------- bounds
MaxUsers == 2
MaxProjects == 2
MaxSites == 2
MaxUpdates == 1
MaxExtraTicks == 2
TicksPerSecond == 2

\* ------------------------------------------------------ program constants
ACCESS_TOKEN_EXPIRE_MINUTES == 30
SecondsPerMinute == 60
BCRYPT_MAX_BYTES == 72
SECRET_KEY == "dev-secret-key-change-in-production-use-secrets-token-urlsafe-32"
ALGORITHM == "HS256"

HTTP_200_OK == 200
HTTP_201_CREATED == 201
HTTP_204_NO_CONTENT == 204
HTTP_400_BAD_REQUEST == 400
HTTP_401_UNAUTHORIZED == 401
HTTP_403_FORBIDDEN == 403
HTTP_404_NOT_FOUND == 404
HTTP_500_INTERNAL_SERVER_ERROR == 500

\* ---------------------------------------------------------------- options
None == <<>>
Some(v) == <<v>>
IsSome(o) == o # <<>>
Val(o) == o[1]

\* ------------------------------------------------------------------ state
VARIABLES
  users,          \* table users: set of User rows
  user_seq,       \* last id handed out by users.id
  projects,       \* table projects
  project_seq,
  sites,          \* table sites
  site_seq,
  analytics,      \* table site_analytics
  analytics_seq,
  now,            \* the clock, in ticks
  held,           \* the token the client holds (optional): how and when it was issued
  updates,        \* number of update requests that changed a row so far
  resp,           \* the response to the latest request
  inflight        \* requests past their handler's checks whose commit is still to come

dbvars == <<users, user_seq, projects, project_seq, sites, site_seq, analytics, analytics_seq>>
vars == <<users, user_seq, projects, project_seq, sites, site_seq, analytics, analytics_seq,
          now, held, updates, resp, inflight>>

Response(op, user, arg, status, body) ==
  [op |-> op, user |-> user, arg |-> arg, status |-> status, body |-> body]

\* =================================================== core/security.py ====

\* str.strip() on a username, a sequence of characters
IsSpace(c) == c = " "
RECURSIVE LStrip(_)
LStrip(s) == IF s # <<>> /\ IsSpace(Head(s)) THEN LStrip(Tail(s)) ELSE s
RECURSIVE RStrip(_)
RStrip(s) == IF s # <<>> /\ IsSpace(s[Len(s)]) THEN RStrip(SubSeq(s, 1, Len(s) - 1)) ELSE s
Strip(s) == RStrip(LStrip(s))

\* bcrypt.hashpw: the hash string carries the version marker, the salt and the
\* digest of the key; the digest is a function of key and salt only.
bcrypt_hashpw(password_bytes, salt) ==
  [marker |-> "$2b$", salt |-> salt, digest |-> <<salt, password_bytes>>]

get_password_hash(password, salt) ==
  LET password_bytes == IF Len(password) > BCRYPT_MAX_BYTES
                        THEN SubSeq(password, 1, BCRYPT_MAX_BYTES)
                        ELSE password
  IN  bcrypt_hashpw(password_bytes, salt)

\* bcrypt.checkpw of the installed library: releases before 5.0 cut the
\* candidate to 72 bytes, 5.0 and later raise ValueError on a longer one.
bcrypt_checkpw(password_bytes, hashed, lib) ==
  IF Len(password_bytes) > BCRYPT_MAX_BYTES
  THEN IF lib = "truncating"
       THEN [raised |-> FALSE,
             result |-> bcrypt_hashpw(SubSeq(password_bytes, 1, BCRYPT_MAX_BYTES), hashed.salt) = hashed]
       ELSE [raised |-> TRUE, result |-> FALSE]
  ELSE [raised |-> FALSE, result |-> bcrypt_hashpw(password_bytes, hashed.salt) = hashed]

BcryptLibs == {"truncating", "strict"}

verify_password(plain_password, hashed_password, lib) ==
  IF hashed_password = None THEN FALSE
  ELSE IF Val(hashed_password).marker \notin {"$2b$", "$2a$", "$2y$"} THEN FALSE
  ELSE LET r == bcrypt_checkpw(plain_password, Val(hashed_password), lib)
       IN  IF r.raised THEN FALSE ELSE r.result

\* timegm(dt.utctimetuple()): a datetime as whole seconds, the fraction dropped
ToSeconds(t) == t \div TicksPerSecond

LifetimeTicks == ACCESS_TOKEN_EXPIRE_MINUTES * SecondsPerMinute * TicksPerSecond
MaxTime == LifetimeTicks + MaxExtraTicks

\* jose.jwt.encode: a datetime "exp" is written as whole seconds; the signature
\* is determined by the key.
jwt_encode(claims, key, algorithm) ==
  [sub |-> claims.sub, exp |-> ToSeconds(claims.exp), key |-> key, alg |-> algorithm]

\* jose.jwt.decode: JWTError on a bad signature or when exp < the clock's whole seconds
jwt_decode(token, key, algorithm, t) ==
  IF token.key # key \/ token.alg # algorithm THEN None
  ELSE IF token.exp < ToSeconds(t) THEN None
  ELSE Some([sub |-> token.sub, exp |-> token.exp])

\* data: a claims map with an optional "sub"; expires_delta: optional ticks
create_access_token_seconds(data, expires_delta, t) ==
  LET expire == IF IsSome(expires_delta) /\ Val(expires_delta) # 0
                THEN t + Val(expires_delta)
                ELSE t + ACCESS_TOKEN_EXPIRE_MINUTES * TicksPerSecond
  IN  jwt_encode([sub |-> data.sub, exp |-> expire], SECRET_KEY, ALGORITHM)

create_access_token(data, expires_delta, t) ==
  LET expire == IF IsSome(expires_delta) /\ Val(expires_delta) # 0
                THEN t + Val(expires_delta)
                ELSE t + LifetimeTicks
  IN  jwt_encode([sub |-> data.sub, exp |-> expire], SECRET_KEY, ALGORITHM)

\* The resolved User as an option: None stands for the 401 credentials_exception.
get_current_user(token, t) ==
  LET payload == jwt_decode(token, SECRET_KEY, ALGORITHM, t) IN
  IF payload = None THEN None
  ELSE IF Val(payload).sub = None THEN None
  ELSE LET found == {u \in users : u.username = Val(Val(payload).sub)} IN
       IF found = {} THEN None ELSE Some(CHOOSE u \in found : TRUE)

\* ===================================================== api/v1/auth.py ====

\* schemas/user.py UserResponse: the public profile of a User row
UserResponse(u) ==
  [id |-> u.id, email |-> u.email, username |-> u.username, full_name |-> u.full_name]

RegisterDuplicateRelaxed(user_data) ==
  {u \in users : u.email = user_data.email /\ u.username = user_data.username}

RegisterDuplicate(user_data) ==
  {u \in users : u.email = user_data.email \/ u.username = user_data.username}

register(user_data, salt) ==
  /\ UNCHANGED <<projects, project_seq, sites, site_seq, analytics, analytics_seq, now, held, updates>>
  /\ IF RegisterDuplicate(user_data) # {}
     THEN /\ resp' = Response("register", 0, 0, HTTP_400_BAD_REQUEST, None)
          /\ UNCHANGED <<users, user_seq>>
     ELSE LET db_user == [id |-> user_seq + 1,
                          email |-> user_data.email,
                          username |-> user_data.username,
                          hashed_password |-> Some(get_password_hash(user_data.password, salt)),
                          full_name |-> user_data.full_name]
          IN  /\ user_seq < MaxUsers
              /\ users' = users \cup {db_user}
              /\ user_seq' = user_seq + 1
              /\ resp' = Response("register", 0, 0, HTTP_201_CREATED, Some(UserResponse(db_user)))

login(user_credentials, lib) ==
  LET username == Strip(user_credentials.username)
      found == {u \in users : u.username = username}
      unauthorized ==
        /\ resp' = Response("login", 0, 0, HTTP_401_UNAUTHORIZED, None)
        /\ UNCHANGED held
  IN
  /\ UNCHANGED <<dbvars, now, updates>>
  /\ IF username = <<>> THEN unauthorized
     ELSE IF found = {} THEN unauthorized
     ELSE LET user == CHOOSE u \in found : TRUE IN
          IF ~verify_password(user_credentials.password, user.hashed_password, lib)
          THEN unauthorized
          ELSE LET access_token == create_access_token([sub |-> Some(user.username)],
                                                       Some(LifetimeTicks), now)
               IN  /\ held' = Some([token |-> access_token, at |-> now,
                                     expires_delta |-> Some(LifetimeTicks)])
                   /\ resp' = Response("login", 0, 0, HTTP_200_OK,
                                       Some([access_token |-> access_token, token_type |-> "bearer"]))

\* A direct call of create_access_token(data, expires_delta)
issue_token(data, expires_delta) ==
  /\ held' = Some([token |-> create_access_token(data, expires_delta, now),
                    at |-> now,
                    expires_delta |-> expires_delta])
  /\ UNCHANGED <<dbvars, now, updates, resp>>

\* GET /auth/me: Depends(get_current_user), then the profile
get_current_user_info(token) ==
  LET current_user == get_current_user(token, now) IN
  /\ UNCHANGED <<dbvars, now, held, updates>>
  /\ IF current_user = None
     THEN resp' = Response("get_current_user_info", 0, 0, HTTP_401_UNAUTHORIZED, None)
     ELSE resp' = Response("get_current_user_info", Val(current_user).id, 0, HTTP_200_OK,
                           Some(UserResponse(Val(current_user))))

\* The clock moves on.  The bound keeps the clock within MaxExtraTicks of a
\* whole number of token lifetimes.
Advance(d) ==
  /\ now + d <= MaxTime
  /\ (now + d) % LifetimeTicks <= MaxExtraTicks
  /\ now' = now + d
  /\ UNCHANGED <<dbvars, held, updates, resp>>

\* ================================================= api/v1/projects.py ====

\* The session's flush of a changed row: an UPDATE is emitted only when some
\* column differs from the loaded row, and only an UPDATE fires
\* onupdate=func.now() on updated_at.
FlushNoTimestamp(old, new, t) == new

Flush(old, new, t) ==
  IF new = old THEN old ELSE [new EXCEPT !.updated_at = Some(t)]

\* The same for a Project row: its updated timestamp is "set on every
\* mutation" (models/project.py is not part of the sources at hand).
FlushProject(old, new, t) == Flush(old, new, t)

SitesOf(project_id) == {s \in sites : s.project_id = project_id}

ProjectResponse(p) ==
  [id |-> p.id, name |-> p.name, description |-> p.description, user_id |-> p.user_id,
   created_at |-> p.created_at, updated_at |-> p.updated_at,
   site_count |-> Cardinality(SitesOf(p.id))]

\* db.query(Project).filter(Project.id == project_id, Project.user_id == current_user.id)
QueryOwnedProjectAnyOwner(project_id, current_user) ==
  {p \in projects : p.id = project_id}

QueryOwnedProject(project_id, current_user) ==
  {p \in projects : p.id = project_id /\ p.user_id = current_user.id}

create_project(current_user, project) ==
  LET db_project == [id |-> project_seq + 1,
                     name |-> project.name,
                     description |-> project.description,
                     user_id |-> current_user.id,
                     created_at |-> now,
                     updated_at |-> None]
  IN
  /\ project_seq < MaxProjects
  /\ projects' = projects \cup {db_project}
  /\ project_seq' = project_seq + 1
  /\ resp' = Response("create_project", current_user.id, 0, HTTP_201_CREATED,
                      Some([ProjectResponse(db_project) EXCEPT !.site_count = 0]))
  /\ UNCHANGED <<users, user_seq, sites, site_seq, analytics, analytics_seq, now, held, updates>>

Min(a, b) == IF a < b THEN a ELSE b
Max(a, b) == IF a > b THEN a ELSE b

\* offset(skip).limit(limit) without ORDER BY: the page is any `limit` of the
\* rows left after `skip`; page is the set of rows the database returned.
get_projects(current_user, skip, limit, page) ==
  LET owned == {p \in projects : p.user_id = current_user.id}
      total == Cardinality(owned)
  IN
  /\ page \subseteq owned
  /\ Cardinality(page) = Min(limit, Max(total - skip, 0))
  /\ resp' = Response("get_projects", current_user.id, 0, HTTP_200_OK,
                      Some([projects |-> {ProjectResponse(p) : p \in page}, total |-> total]))
  /\ UNCHANGED <<dbvars, now, held, updates>>

get_project(current_user, project_id) ==
  LET found == QueryOwnedProject(project_id, current_user) IN
  /\ UNCHANGED <<dbvars, now, held, updates>>
  /\ IF found = {}
     THEN resp' = Response("get_project", current_user.id, project_id, HTTP_404_NOT_FOUND, None)
     ELSE resp' = Response("get_project", current_user.id, project_id, HTTP_200_OK,
                           Some(ProjectResponse(CHOOSE p \in found : TRUE)))

update_project(current_user, project_id, project_update) ==
  LET found == QueryOwnedProject(project_id, current_user) IN
  /\ UNCHANGED <<users, user_seq, project_seq, sites, site_seq, analytics, analytics_seq, now, held>>
  /\ IF found = {}
     THEN /\ resp' = Response("update_project", current_user.id, project_id, HTTP_404_NOT_FOUND, None)
          /\ UNCHANGED <<projects, updates>>
     ELSE LET project == CHOOSE p \in found : TRUE
              named == IF IsSome(project_update.name)
                       THEN [project EXCEPT !.name = Val(project_update.name)]
                       ELSE project
              described == IF IsSome(project_update.description)
                           THEN [named EXCEPT !.description = project_update.description]
                           ELSE named
              stored == FlushProject(project, described, now)
          IN  /\ stored # project => updates < MaxUpdates
              /\ updates' = IF stored # project THEN updates + 1 ELSE updates
              /\ projects' = (projects \ {project}) \cup {stored}
              /\ resp' = Response("update_project", current_user.id, project_id, HTTP_200_OK,
                                  Some(ProjectResponse(stored)))

\* What db.delete(project) does to the project's sites is set by the sites
\* relationship of models/project.py: "cascade" deletes them (and, through
\* Site.analytics, their analytics), "restrict" has the database refuse the
\* delete for the NOT NULL foreign key sites.project_id.
ProjectDeleteRules == {"cascade", "restrict"}

delete_project(current_user, project_id, rule) ==
  LET found == QueryOwnedProject(project_id, current_user)
      children == SitesOf(project_id)
  IN
  /\ UNCHANGED <<users, user_seq, project_seq, site_seq, analytics_seq, now, held, updates>>
  /\ IF found = {}
     THEN /\ resp' = Response("delete_project", current_user.id, project_id, HTTP_404_NOT_FOUND, None)
          /\ UNCHANGED <<projects, sites, analytics>>
     ELSE IF children # {} /\ rule = "restrict"
     THEN /\ resp' = Response("delete_project", current_user.id, project_id,
                              HTTP_500_INTERNAL_SERVER_ERROR, None)
          /\ UNCHANGED <<projects, sites, analytics>>
     ELSE /\ projects' = projects \ found
          /\ sites' = sites \ children
          /\ analytics' = {a \in analytics : a.site_id \notin {s.id : s \in children}}
          /\ resp' = Response("delete_project", current_user.id, project_id, HTTP_204_NO_CONTENT, None)

\* ==================================================== api/v1/sites.py ====

SRID == 4326
METERS_PER_DEGREE == 111000
M2_PER_HECTARE == 10000
MIN_AREA_HECTARES_MILLI == 100
FALLBACK_AREA_HECTARES_MILLI == 1000
ANALYTICS_MONTHS == 12
ANALYTICS_STEP_DAYS == 30
DrawSteps == 4
CoordUnitsPerDegree == 1000
AreaUnitsPerHectare == 1000
SecondsPerDay == 86400

Abs(x) == IF x < 0 THEN -x ELSE x
\* int(x) of a quotient: toward zero
TruncDiv(n, d) == IF n >= 0 THEN n \div d ELSE -((-n) \div d)
\* round() of a quotient n/d, d > 0: to the nearest, a tie to the even one
RoundDiv(n, d) ==
  LET q == n \div d
      r == n - q * d
  IN  IF 2 * r < d THEN q
      ELSE IF 2 * r > d THEN q + 1
      ELSE IF q % 2 = 0 THEN q ELSE q + 1

\* shapely closes a ring whose last point is not its first
CloseRing(ring) ==
  IF ring # <<>> /\ ring[1] # ring[Len(ring)] THEN Append(ring, ring[1]) ELSE ring

\* shapely.geometry.shape(geojson): raises on an unknown type and on a polygon
\* ring of fewer than 4 coordinates
shape_any_ring(geojson) ==
  IF geojson.type \in {"Polygon", "MultiLineString"}
  THEN [ok |-> TRUE, type |-> geojson.type, coords |-> geojson.coordinates]
  ELSE [ok |-> TRUE, type |-> "Polygon", coords |-> geojson.coordinates]

shape(geojson) ==
  IF geojson.type = "Polygon"
  THEN LET rings == [i \in 1..Len(geojson.coordinates) |-> CloseRing(geojson.coordinates[i])]
       IN  IF rings = <<>> \/ \E i \in 1..Len(rings) : Len(rings[i]) < 4
           THEN [ok |-> FALSE, type |-> "", coords |-> <<>>]
           ELSE [ok |-> TRUE, type |-> "Polygon", coords |-> rings]
  ELSE IF geojson.type = "MultiLineString"
  THEN IF \E i \in 1..Len(geojson.coordinates) : Len(geojson.coordinates[i]) < 2
       THEN [ok |-> FALSE, type |-> "", coords |-> <<>>]
       ELSE [ok |-> TRUE, type |-> "MultiLineString", coords |-> geojson.coordinates]
  ELSE [ok |-> FALSE, type |-> "", coords |-> <<>>]

\* twice the signed area of a closed ring (the shoelace sum)
RECURSIVE Shoelace(_, _)
Shoelace(ring, i) ==
  IF i >= Len(ring) THEN 0
  ELSE ring[i][1] * ring[i + 1][2] - ring[i + 1][1] * ring[i][2] + Shoelace(ring, i + 1)

RECURSIVE HolesArea2(_, _)
HolesArea2(rings, i) ==
  IF i > Len(rings) THEN 0 ELSE Abs(Shoelace(rings[i], 1)) + HolesArea2(rings, i + 1)

\* geom.area, doubled, in square coordinate units: the shell less the holes
Area2(geom) ==
  IF geom.type = "Polygon"
  THEN Abs(Shoelace(geom.coords[1], 1)) - HolesArea2(geom.coords, 2)
  ELSE 0

calculate_area_hectares(geometry_geojson) ==
  LET geom == shape(geometry_geojson) IN
  IF ~geom.ok THEN FALLBACK_AREA_HECTARES_MILLI
  ELSE LET meters_per_unit == METERS_PER_DEGREE \div CoordUnitsPerDegree
           area_hectares == (Area2(geom) * meters_per_unit * meters_per_unit * AreaUnitsPerHectare)
                               \div (2 * M2_PER_HECTARE)
       IN  Max(area_hectares, MIN_AREA_HECTARES_MILLI)

\* geoalchemy2.shape.from_shape(geom, srid=4326)
from_shape(geom, srid) == [srid |-> srid, type |-> geom.type, coords |-> geom.coords]

\* mapping(to_shape(geometry)); the WKT fallback reads the same geometry
geometry_to_geojson(geometry) ==
  IF geometry.type \in {"Polygon", "MultiLineString"}
  THEN [ok |-> TRUE, type |-> geometry.type, coordinates |-> geometry.coords]
  ELSE [ok |-> FALSE, type |-> "", coordinates |-> <<>>]

SiteResponse(s, geom_geojson) ==
  [id |-> s.id, name |-> s.name, project_id |-> s.project_id,
   geometry |-> [type |-> "Polygon", coordinates |-> geom_geojson.coordinates],
   area_hectares |-> s.area_hectares,
   carbon_sequestration_tonnes |-> s.carbon_sequestration_tonnes,
   biodiversity_score |-> s.biodiversity_score,
   metadata |-> s.site_metadata,
   created_at |-> s.created_at, updated_at |-> s.updated_at]

\* date.today()
Today(t) == t \div (SecondsPerDay * TicksPerSecond)

\* a generator that stores the row of today alone
_generate_analytics_first_row(site_id, area_hectares, stream, first_id, t) ==
  { [id |-> first_id, site_id |-> site_id, date |-> Today(t),
     carbon_sequestration_tonnes |-> 0, biodiversity_score |-> 0, tree_count |-> 0,
     vegetation_cover_percentage |-> 0, soil_carbon_percentage |-> 0, created_at |-> t] }

\* The 12 rows of one run of the generator.  stream[k] is the k-th draw of
\* random.uniform, as DrawSteps-ths of its interval; row i uses draws 5i..5i+4.
_generate_analytics_for_site(site_id, area_hectares, stream, first_id, t) ==
  { [id |-> first_id + i,
     site_id |-> site_id,
     date |-> Today(t) - ANALYTICS_STEP_DAYS * i,
     carbon_sequestration_tonnes |->
        RoundDiv(area_hectares * (2 * DrawSteps + (5 - 2) * stream[5 * i]) * (ANALYTICS_MONTHS - i) * 100,
                 AreaUnitsPerHectare * DrawSteps * ANALYTICS_MONTHS),
     biodiversity_score |->
        RoundDiv((60 * DrawSteps + (95 - 60) * stream[5 * i + 1]) * 10, DrawSteps),
     tree_count |->
        TruncDiv(area_hectares * (100 * DrawSteps + (300 - 100) * stream[5 * i + 2]),
                 AreaUnitsPerHectare * DrawSteps),
     vegetation_cover_percentage |->
        RoundDiv((70 * DrawSteps + (95 - 70) * stream[5 * i + 3]) * 10, DrawSteps),
     soil_carbon_percentage |->
        RoundDiv(250 * DrawSteps + (450 - 250) * stream[5 * i + 4], DrawSteps),
     created_at |-> t] : i \in 0..(ANALYTICS_MONTHS - 1) }

\* `not area_hectares`: None and 0 both count as not supplied
AreaSupplied(site) == IsSome(site.area_hectares) /\ Val(site.area_hectares) # 0

OrZero(o) == IF IsSome(o) THEN Val(o) ELSE 0

\* The sites.geometry column is Geometry("POLYGON", srid=4326): the insert of
\* any other geometry type raises.
InsertAccepted(postgis_geom) == postgis_geom.type = "Polygon" /\ postgis_geom.srid = SRID

\* How a run of the generator ends.  "ok": its rows are committed.  "raises":
\* it raises with the session still usable (before its commit, as int() of a
\* non-finite product does); the pending rows are dropped with the session.
\* "flush_fails": the flush of its commit raises (an integer out of range, a
\* lost connection, the site deleted meanwhile); the session is left in the
\* failed transaction with db_site expired, and as the handler's except
\* clause does not roll back, its own read of db_site.id raises in turn.
GeneratorOutcomes == {"ok", "raises", "flush_fails"}

create_site(current_user, site, stream, gen) ==
  LET project == QueryOwnedProject(site.project_id, current_user)
      area_hectares == IF AreaSupplied(site) THEN Val(site.area_hectares)
                       ELSE calculate_area_hectares(site.geometry)
      geom == shape(site.geometry)
      postgis_geom == from_shape(geom, SRID)
      db_site == [id |-> site_seq + 1,
                  name |-> site.name,
                  project_id |-> site.project_id,
                  geometry |-> postgis_geom,
                  area_hectares |-> area_hectares,
                  carbon_sequestration_tonnes |-> OrZero(site.carbon_sequestration_tonnes),
                  biodiversity_score |-> OrZero(site.biodiversity_score),
                  site_metadata |-> site.metadata,
                  created_at |-> now,
                  updated_at |-> None]
      geom_geojson == geometry_to_geojson(db_site.geometry)
      rows == _generate_analytics_for_site(db_site.id, area_hectares, stream, analytics_seq + 1, now)
  IN
  /\ UNCHANGED <<users, user_seq, projects, project_seq, now, held, updates>>
  /\ IF project = {}
     THEN /\ resp' = Response("create_site", current_user.id, 0, HTTP_404_NOT_FOUND, None)
          /\ UNCHANGED <<sites, site_seq, analytics, analytics_seq>>
     ELSE IF ~geom.ok
     THEN /\ resp' = Response("create_site", current_user.id, 0, HTTP_400_BAD_REQUEST, None)
          /\ UNCHANGED <<sites, site_seq, analytics, analytics_seq>>
     ELSE IF ~InsertAccepted(postgis_geom)
     THEN /\ resp' = Response("create_site", current_user.id, 0, HTTP_500_INTERNAL_SERVER_ERROR, None)
          /\ UNCHANGED <<sites, site_seq, analytics, analytics_seq>>
     ELSE /\ site_seq < MaxSites
          /\ sites' = sites \cup {db_site}
          /\ site_seq' = site_seq + 1
          /\ IF gen = "ok"
             THEN /\ analytics' = analytics \cup rows
                  /\ analytics_seq' = analytics_seq + ANALYTICS_MONTHS
             ELSE UNCHANGED <<analytics, analytics_seq>>
          /\ IF gen # "flush_fails" /\ geom_geojson.ok
             THEN resp' = Response("create_site", current_user.id, db_site.id, HTTP_201_CREATED,
                                   Some(SiteResponse(db_site, geom_geojson)))
             ELSE resp' = Response("create_site", current_user.id, db_site.id,
                                   HTTP_500_INTERNAL_SERVER_ERROR, None)

get_sites_by_project(current_user, project_id) ==
  LET project == QueryOwnedProject(project_id, current_user)
      converted == {s \in SitesOf(project_id) : geometry_to_geojson(s.geometry).ok}
  IN
  /\ UNCHANGED <<dbvars, now, held, updates>>
  /\ IF project = {}
     THEN resp' = Response("get_sites_by_project", current_user.id, project_id, HTTP_404_NOT_FOUND, None)
     ELSE resp' = Response("get_sites_by_project", current_user.id, project_id, HTTP_200_OK,
                           Some({SiteResponse(s, geometry_to_geojson(s.geometry)) : s \in converted}))

QuerySite(site_id) == {s \in sites : s.id = site_id}

SiteAnalyticsResponse(a) == a

\* order_by(SiteAnalytics.date.desc())
RECURSIVE OrderByDateDesc(_)
OrderByDateDesc(rows) ==
  IF rows = {} THEN <<>>
  ELSE LET first == CHOOSE a \in rows :
                      \A b \in rows : a.date > b.date \/ (a.date = b.date /\ a.id <= b.id)
       IN  <<SiteAnalyticsResponse(first)>> \o OrderByDateDesc(rows \ {first})

get_site(current_user, site_id) ==
  LET found == QuerySite(site_id) IN
  /\ UNCHANGED <<dbvars, now, held, updates>>
  /\ IF found = {}
     THEN resp' = Response("get_site", current_user.id, site_id, HTTP_404_NOT_FOUND, None)
     ELSE LET site == CHOOSE s \in found : TRUE
              geom_geojson == geometry_to_geojson(site.geometry)
              analytics_list == OrderByDateDesc({a \in analytics : a.site_id = site_id})
          IN  IF QueryOwnedProject(site.project_id, current_user) = {}
              THEN resp' = Response("get_site", current_user.id, site_id, HTTP_403_FORBIDDEN, None)
              ELSE IF ~geom_geojson.ok
              THEN resp' = Response("get_site", current_user.id, site_id,
                                    HTTP_500_INTERNAL_SERVER_ERROR, None)
              ELSE resp' = Response("get_site", current_user.id, site_id, HTTP_200_OK,
                                    Some([site |-> SiteResponse(site, geom_geojson),
                                          analytics |-> analytics_list]))

ApplySiteUpdate(site, site_update) ==
  LET s1 == IF IsSome(site_update.name) THEN [site EXCEPT !.name = Val(site_update.name)] ELSE site
      s2 == IF IsSome(site_update.area_hectares)
            THEN [s1 EXCEPT !.area_hectares = Val(site_update.area_hectares)] ELSE s1
      s3 == IF IsSome(site_update.carbon_sequestration_tonnes)
            THEN [s2 EXCEPT !.carbon_sequestration_tonnes = Val(site_update.carbon_sequestration_tonnes)]
            ELSE s2
      s4 == IF IsSome(site_update.biodiversity_score)
            THEN [s3 EXCEPT !.biodiversity_score = Val(site_update.biodiversity_score)] ELSE s3
  IN  IF IsSome(site_update.metadata) THEN [s4 EXCEPT !.site_metadata = site_update.metadata] ELSE s4

update_site(current_user, site_id, site_update) ==
  LET found == QuerySite(site_id) IN
  /\ UNCHANGED <<users, user_seq, projects, project_seq, site_seq, analytics, analytics_seq, now, held>>
  /\ IF found = {}
     THEN /\ resp' = Response("update_site", current_user.id, site_id, HTTP_404_NOT_FOUND, None)
          /\ UNCHANGED <<sites, updates>>
     ELSE LET site == CHOOSE s \in found : TRUE
              stored == Flush(site, ApplySiteUpdate(site, site_update), now)
              geom_geojson == geometry_to_geojson(stored.geometry)
          IN  IF QueryOwnedProject(site.project_id, current_user) = {}
              THEN /\ resp' = Response("update_site", current_user.id, site_id, HTTP_403_FORBIDDEN, None)
                   /\ UNCHANGED <<sites, updates>>
              ELSE /\ stored # site => updates < MaxUpdates
                   /\ updates' = IF stored # site THEN updates + 1 ELSE updates
                   /\ sites' = (sites \ {site}) \cup {stored}
                   /\ IF geom_geojson.ok
                      THEN resp' = Response("update_site", current_user.id, site_id, HTTP_200_OK,
                                            Some(SiteResponse(stored, geom_geojson)))
                      ELSE resp' = Response("update_site", current_user.id, site_id,
                                            HTTP_500_INTERNAL_SERVER_ERROR, None)

\* Site.analytics has cascade="all, delete-orphan": db.delete(site) deletes its rows
CascadeAnalyticsNone(site_id) == analytics

CascadeAnalytics(site_id) == {a \in analytics : a.site_id # site_id}

delete_site_unchecked(current_user, site_id) ==
  LET found == QuerySite(site_id) IN
  /\ UNCHANGED <<users, user_seq, projects, project_seq, site_seq, analytics_seq, now, held, updates>>
  /\ IF found = {}
     THEN /\ resp' = Response("delete_site", current_user.id, site_id, HTTP_404_NOT_FOUND, None)
          /\ UNCHANGED <<sites, analytics>>
     ELSE /\ sites' = sites \ found
          /\ analytics' = CascadeAnalytics(site_id)
          /\ resp' = Response("delete_site", current_user.id, site_id, HTTP_204_NO_CONTENT, None)

delete_site(current_user, site_id) ==
  LET found == QuerySite(site_id) IN
  /\ UNCHANGED <<users, user_seq, projects, project_seq, site_seq, analytics_seq, now, held, updates>>
  /\ IF found = {}
     THEN /\ resp' = Response("delete_site", current_user.id, site_id, HTTP_404_NOT_FOUND, None)
          /\ UNCHANGED <<sites, analytics>>
     ELSE LET site == CHOOSE s \in found : TRUE IN
          IF QueryOwnedProject(site.project_id, current_user) = {}
          THEN /\ resp' = Response("delete_site", current_user.id, site_id, HTTP_403_FORBIDDEN, None)
               /\ UNCHANGED <<sites, analytics>>
          ELSE /\ sites' = sites \ {site}
               /\ analytics' = CascadeAnalytics(site_id)
               /\ resp' = Response("delete_site", current_user.id, site_id, HTTP_204_NO_CONTENT, None)

\* ------------------------------------------------------------ Init
Init ==
  /\ users = {} /\ user_seq = 0
  /\ projects = {} /\ project_seq = 0
  /\ sites = {} /\ site_seq = 0
  /\ analytics = {} /\ analytics_seq = 0
  /\ now = 0
  /\ held = None
  /\ updates = 0
  /\ resp = Response("none", 0, 0, 0, None)
  /\ inflight = {}

\* ------------------------------------------------- inputs of the auth API
Password1 == <<1>>
Password2 == <<2>>
UserCreateInputs ==
  { [email |-> "a@x", username |-> <<"a">>, password |-> Password1, full_name |-> Some("A")],
    [email |-> "b@x", username |-> <<"b">>, password |-> Password2, full_name |-> None],
    [email |-> "a@x", username |-> <<"c">>, password |-> Password2, full_name |-> None],
    [email |-> "c@x", username |-> <<"a">>, password |-> Password1, full_name |-> None] }
Salts == {1, 2}
UserLoginInputs ==
  { [username |-> n, password |-> p] :
      n \in {<<"a">>, <<" ", "a", " ">>, <<"b">>, <<" ">>}, p \in {Password1, Password2} }
TokenSubjects == {None, Some(<<"a">>), Some(<<"b">>)}
ExpiresDeltas == {None, Some(0), Some(TicksPerSecond)}
\* what a client may present: a token it holds, or the same claims signed
\* with another secret
ForgedOf(tok) == [tok EXCEPT !.key = "another-secret"]
PresentableTokens ==
  IF held = None THEN {} ELSE {Val(held).token, ForgedOf(Val(held).token)}

DoRegisterAuth ==
  /\ UNCHANGED inflight
  /\ \E user_data \in UserCreateInputs, salt \in Salts : register(user_data, salt)
DoLogin ==
  /\ UNCHANGED inflight
  /\ \E c \in UserLoginInputs, lib \in BcryptLibs : login(c, lib)
DoIssueToken ==
  /\ UNCHANGED inflight
  /\ \E s \in TokenSubjects, d \in ExpiresDeltas : issue_token([sub |-> s], d)
DoMe ==
  /\ UNCHANGED inflight
  /\ \E tok \in PresentableTokens : get_current_user_info(tok)
DoAdvance ==
  /\ UNCHANGED inflight
  /\ \E d \in {1, LifetimeTicks} : Advance(d)

\* registration, login and the profile, at one instant
NextAuth == DoRegisterAuth \/ DoLogin \/ DoMe
SpecAuth == Init /\ [][NextAuth]_vars

\* -------------------------------------------- inputs of the resource API
\* the registrations that make the owners, in the order they arrive
OwnerInputs ==
  << [email |-> "a@x", username |-> <<"a">>, password |-> Password1, full_name |-> Some("A")],
     [email |-> "b@x", username |-> <<"b">>, password |-> Password2, full_name |-> None] >>
ProjectCreateInputs == { [name |-> "p", description |-> None] }
ProjectUpdateInputs ==
  { [name |-> Some("q"), description |-> None],
    [name |-> None, description |-> Some("d")],
    [name |-> Some("p"), description |-> None] }
ProjectIds == 1..(project_seq + 1)
SiteIds == 1..(site_seq + 1)

\* a square of 4 x 4 coordinate units, its ring closed
Square == <<<< <<0, 0>>, <<4, 0>>, <<4, 4>>, <<0, 4>>, <<0, 0>> >>>>
\* the same square, its ring left open
OpenSquare == <<<< <<0, 0>>, <<4, 0>>, <<4, 4>>, <<0, 4>> >>>>
\* a ring with no area
Flat == <<<< <<0, 0>>, <<1, 0>>, <<2, 0>>, <<0, 0>> >>>>
\* a ring of two points: not a polygon
TwoPoints == <<<< <<0, 0>>, <<1, 1>> >>>>

SiteCreate(project_id, type, coordinates, area_hectares) ==
  [name |-> "s", project_id |-> project_id,
   geometry |-> [type |-> type, coordinates |-> coordinates],
   area_hectares |-> area_hectares, metadata |-> None,
   carbon_sequestration_tonnes |-> None, biodiversity_score |-> None]

SiteCreateInputs == { SiteCreate(pid, "Polygon", Square, None) : pid \in ProjectIds }
SiteUpdateNone ==
  [name |-> None, area_hectares |-> None, carbon_sequestration_tonnes |-> None,
   biodiversity_score |-> None, metadata |-> None]
SiteUpdateInputs ==
  { [SiteUpdateNone EXCEPT !.name = Some("t")],
    [SiteUpdateNone EXCEPT !.name = Some("s")],
    [SiteUpdateNone EXCEPT !.area_hectares = Some(5000)],
    [SiteUpdateNone EXCEPT !.carbon_sequestration_tonnes = Some(7)],
    [SiteUpdateNone EXCEPT !.biodiversity_score = Some(8)],
    [SiteUpdateNone EXCEPT !.metadata = Some("m")] }

DrawIndexes == 0..(5 * ANALYTICS_MONTHS - 1)
LowStream == [k \in DrawIndexes |-> 0]
HighStream == [k \in DrawIndexes |-> DrawSteps]
MixedStream == [k \in DrawIndexes |-> k % (DrawSteps + 1)]

DoRegister ==
  /\ UNCHANGED inflight
  /\ user_seq < Len(OwnerInputs) /\ register(OwnerInputs[user_seq + 1], 1)
DoCreateProject ==
  /\ UNCHANGED inflight
  /\ \E u \in users, p \in ProjectCreateInputs : create_project(u, p)
DoGetProjects ==
  /\ UNCHANGED inflight
  /\ \E u \in users, window \in {<<0, 100>>, <<1, 100>>, <<0, 1>>}, page \in SUBSET projects :
        get_projects(u, window[1], window[2], page)
DoGetProject ==
  /\ UNCHANGED inflight
  /\ \E u \in users, pid \in ProjectIds : get_project(u, pid)
DoUpdateProject ==
  /\ UNCHANGED inflight
  /\ \E u \in users, pid \in ProjectIds, upd \in ProjectUpdateInputs : update_project(u, pid, upd)
DoDeleteProject ==
  /\ UNCHANGED inflight
  /\ \E u \in users, pid \in ProjectIds :
        \E rule \in (IF SitesOf(pid) = {} THEN {"cascade"} ELSE ProjectDeleteRules) :
           delete_project(u, pid, rule)
DoCreateSite ==
  /\ UNCHANGED inflight
  /\ \E u \in users, site \in SiteCreateInputs : create_site(u, site, MixedStream, "ok")
DoGetSitesByProject ==
  /\ UNCHANGED inflight
  /\ \E u \in users, pid \in ProjectIds : get_sites_by_project(u, pid)
DoGetSite ==
  /\ UNCHANGED inflight
  /\ \E u \in users, sid \in SiteIds : get_site(u, sid)
DoUpdateSite ==
  /\ UNCHANGED inflight
  /\ \E u \in users, sid \in SiteIds, upd \in SiteUpdateInputs : update_site(u, sid, upd)
DoDeleteSite ==
  /\ UNCHANGED inflight
  /\ \E u \in users, sid \in SiteIds : delete_site(u, sid)

Next ==
  \/ DoRegister
  \/ DoCreateProject \/ DoGetProjects \/ DoGetProject \/ DoUpdateProject \/ DoDeleteProject
  \/ DoCreateSite \/ DoGetSitesByProject \/ DoGetSite \/ DoUpdateSite \/ DoDeleteSite
Spec == Init /\ [][Next]_vars

\* ------------------------------- inputs of token use and of site creation
\* what a client may post as a new site of project 1: computed and supplied
\* areas (whole, fractional, zero, negative), rings closed and open, with and
\* without area, geometries that are no shape, and a shape that is no polygon
MalformedGeometries ==
  { [type |-> "Polygon", coordinates |-> TwoPoints],
    [type |-> "Circle", coordinates |-> Square] }
SiteCreateAnyInputs ==
  { SiteCreate(1, "Polygon", Square, None),
    SiteCreate(1, "Polygon", OpenSquare, None),
    SiteCreate(1, "Polygon", Flat, Some(0)),
    SiteCreate(1, "Polygon", Square, Some(10000)),
    SiteCreate(1, "Polygon", Square, Some(155)),
    SiteCreate(1, "Polygon", Square, Some(-1000)),
    SiteCreate(1, "Polygon", TwoPoints, None),
    SiteCreate(1, "Polygon", TwoPoints, Some(10000)),
    SiteCreate(1, "Circle", Square, None),
    SiteCreate(1, "MultiLineString", Square, None),
    SiteCreate(2, "Polygon", Square, None) }
Streams == {LowStream, HighStream, MixedStream}
\* the draws matter only to a run of the generator that stores its rows
StreamsFor(gen) == IF gen = "ok" THEN Streams ELSE {LowStream}

DoRegisterOwner ==
  /\ UNCHANGED inflight
  /\ user_seq = 0 /\ register(OwnerInputs[1], 1)
DoCreateOwnerProject ==
  /\ UNCHANGED inflight
  /\ project_seq = 0 /\ \E u \in users, p \in ProjectCreateInputs : create_project(u, p)
DoCreateSiteAny ==
  /\ UNCHANGED inflight
  /\ \E u \in users, site \in SiteCreateAnyInputs, gen \in GeneratorOutcomes :
        \E stream \in StreamsFor(gen) : create_site(u, site, stream, gen)

\* tokens issued to the owners and presented as time goes by
NextTokens == DoRegister \/ DoIssueToken \/ DoMe \/ DoAdvance
SpecTokens == Init /\ [][NextTokens]_vars

NextSites == DoRegisterOwner \/ DoCreateOwnerProject \/ DoCreateSiteAny
SpecSites == Init /\ [][NextSites]_vars

\* ------------------------------------------------- parts of the resource API
\* an update of the area alone, and a new site of the first project
DoUpdateSiteArea ==
  /\ UNCHANGED inflight
  /\ \E u \in users, sid \in SiteIds :
        update_site(u, sid, [SiteUpdateNone EXCEPT !.area_hectares = Some(5000)])
DoCreateSiteInFirstProject ==
  /\ UNCHANGED inflight
  /\ \E u \in users : create_site(u, SiteCreate(1, "Polygon", Square, None), MixedStream, "ok")

\* the projects router alone
NextProjects ==
  \/ DoRegister
  \/ DoCreateProject \/ DoGetProjects \/ DoGetProject \/ DoUpdateProject \/ DoDeleteProject
SpecProjects == Init /\ [][NextProjects]_vars

\* the sites of one project, read, updated and deleted by its owner and by
\* the other user
NextSiteAccess ==
  \/ DoRegister \/ DoCreateOwnerProject
  \/ DoCreateSite \/ DoGetSite \/ DoUpdateSiteArea \/ DoDeleteSite
SpecSiteAccess == Init /\ [][NextSiteAccess]_vars

\* one owner's updates of projects and their sites
NextUpdates ==
  \/ DoRegisterOwner \/ DoCreateProject
  \/ DoCreateSiteInFirstProject \/ DoUpdateProject \/ DoUpdateSite
SpecUpdates == Init /\ [][NextUpdates]_vars

\* ================================================== claims: the auth API ===

\* C3: register never creates a second user with an e-mail or a username
\* already taken: such a request is answered 400 and creates no user; any
\* other request is answered 201, creates exactly one user carrying the
\* requested e-mail and username, and the response body has no password hash.
C3_RegistrationUniqueness ==
  [][ \A user_data \in UserCreateInputs, salt \in Salts :
        register(user_data, salt) =>
          IF \E u \in users : u.email = user_data.email \/ u.username = user_data.username
          THEN /\ resp'.status = HTTP_400_BAD_REQUEST
               /\ users' = users
          ELSE /\ resp'.status = HTTP_201_CREATED
               /\ users \subseteq users'
               /\ Cardinality(users' \ users) = 1
               /\ \A u \in users' \ users :
                    /\ u.email = user_data.email
                    /\ u.username = user_data.username
                    /\ Val(resp'.body).id = u.id
               /\ Val(resp'.body).email = user_data.email
               /\ Val(resp'.body).username = user_data.username
               /\ "hashed_password" \notin DOMAIN Val(resp'.body)
               /\ "password" \notin DOMAIN Val(resp'.body)
    ]_vars

\* a duplicate was turned away after two registrations went through
C3_Witness ==
  /\ resp.op = "register"
  /\ resp.status = HTTP_400_BAD_REQUEST
  /\ Cardinality(users) = 2

\* The held token was issued with no explicit expiry for a user that exists.
HeldDefaultToken ==
  /\ held # None
  /\ Val(held).expires_delta = None
  /\ Val(held).token.sub # None
  /\ \E u \in users : u.username = Val(Val(held).token.sub)

Accepted(token) ==
  /\ get_current_user(token, now) # None
  /\ Val(get_current_user(token, now)).username = Val(token.sub)

\* C4 as stated: a default token is accepted at every time up to issuance +
\* 30 minutes and rejected at every time past it; the same claims signed with
\* another key are always rejected.
C4_TokenLifecycle_AsStated ==
  /\ HeldDefaultToken =>
       /\ now <= Val(held).at + LifetimeTicks => Accepted(Val(held).token)
       /\ now > Val(held).at + LifetimeTicks => get_current_user(Val(held).token, now) = None
  /\ held # None => get_current_user(ForgedOf(Val(held).token), now) = None

\* C4, amended: a default token is accepted at every time up to issuance + 30
\* minutes, and rejected at every time whose whole-second reading is later
\* than the whole second of issuance + 30 minutes; within the second that
\* holds the expiry it is still accepted.  The same claims signed with
\* another key are always rejected.
C4_TokenLifecycle ==
  /\ HeldDefaultToken =>
       LET expiry == ToSeconds(Val(held).at) + ACCESS_TOKEN_EXPIRE_MINUTES * SecondsPerMinute IN
       /\ now <= Val(held).at + LifetimeTicks => Accepted(Val(held).token)
       /\ ToSeconds(now) > expiry => get_current_user(Val(held).token, now) = None
       /\ ToSeconds(now) <= expiry => Accepted(Val(held).token)
  /\ held # None => get_current_user(ForgedOf(Val(held).token), now) = None

\* a default token was presented a whole second past its expiry and refused
C4_Witness ==
  /\ HeldDefaultToken
  /\ ToSeconds(now) > ToSeconds(Val(held).at) + ACCESS_TOKEN_EXPIRE_MINUTES * SecondsPerMinute
  /\ resp.op = "get_current_user_info"
  /\ resp.status = HTTP_401_UNAUTHORIZED

\* =============================================== claims: site creation ====

\* the caller owns the project the new site is posted to
OwnsProject(u, project_id) == \E p \in projects : p.id = project_id /\ p.user_id = u.id

\* C5 as stated: create_site with no usable area and a geometry that cannot
\* be parsed stores the site with area exactly 1.0 hectare and answers 201.
C5_AreaFallback_AsStated ==
  [][ \A u \in users, site \in SiteCreateAnyInputs, gen \in GeneratorOutcomes :
      \A stream \in StreamsFor(gen) :
        ( /\ OwnsProject(u, site.project_id)
          /\ site.geometry \in MalformedGeometries
          /\ site.area_hectares \in {None, Some(0)}
          /\ create_site(u, site, stream, gen) )
        => /\ \E s \in sites' \ sites : s.area_hectares = FALLBACK_AREA_HECTARES_MILLI
           /\ resp'.status = HTTP_201_CREATED
    ]_vars

\* C6: create_site by the project's owner with a geometry that cannot be
\* parsed as a shape is answered 400 and creates neither a site nor analytics.
C6_MalformedGeometry ==
  [][ LET rejected == /\ resp'.status = HTTP_400_BAD_REQUEST
                      /\ sites' = sites /\ site_seq' = site_seq
                      /\ analytics' = analytics /\ analytics_seq' = analytics_seq
      IN  \/ rejected
          \/ \A u \in users, site \in SiteCreateAnyInputs, gen \in GeneratorOutcomes :
               \A stream \in StreamsFor(gen) :
                 ~ ( /\ OwnsProject(u, site.project_id)
                     /\ site.geometry \in MalformedGeometries
                     /\ create_site(u, site, stream, gen) )
    ]_vars

\* the owner's post of a malformed geometry was answered 400 while a site of
\* a well-formed one is stored
C6_Witness ==
  /\ resp.op = "create_site"
  /\ resp.status = HTTP_400_BAD_REQUEST
  /\ \E p \in projects : p.user_id = resp.user
  /\ sites # {}

\* C7 as stated: when the analytics generator fails after the site row is
\* committed, create_site still answers 201, the site stays stored and it has
\* no analytics rows.
C7_BestEffortAnalytics_AsStated ==
  [][ \A u \in users, site \in SiteCreateAnyInputs, gen \in GeneratorOutcomes \ {"ok"} :
      \A stream \in StreamsFor(gen) :
        ( /\ resp'.op = "create_site"
          /\ create_site(u, site, stream, gen)
          /\ site_seq' = site_seq + 1 )
        => /\ resp'.status = HTTP_201_CREATED
           /\ \E s \in sites' : s.id = site_seq'
           /\ \A a \in analytics' : a.site_id # site_seq'
    ]_vars

\* the rows of one site among the rows of a table
RowsOf(site_id, table) == {a \in table : a.site_id = site_id}

\* twelve rows, one for each of today, today - 30 days, ..., today - 330 days
TwelveMonthly(rows, today) ==
  /\ Cardinality(rows) = ANALYTICS_MONTHS
  /\ \A i \in 0..(ANALYTICS_MONTHS - 1) :
        \E a \in rows : a.date = today - ANALYTICS_STEP_DAYS * i

\* C8 as stated: after a create_site that succeeds and whose generator does
\* not fail the site has exactly 12 rows, the i-th dated today - 30 i days,
\* each with tree_count within [100 area, 300 area] and carbon >= 0.
C8_AnalyticsShape_AsStated ==
  [][ \A u \in users, site \in SiteCreateAnyInputs, stream \in Streams :
        ( /\ resp'.op = "create_site"
          /\ resp'.status = HTTP_201_CREATED
          /\ create_site(u, site, stream, "ok") )
        => LET created == CHOOSE s \in sites' : s.id = resp'.arg
               rows == RowsOf(created.id, analytics')
           IN  /\ TwelveMonthly(rows, Today(now))
               /\ rows = analytics' \ analytics
               /\ \A a \in rows :
                    /\ a.tree_count * AreaUnitsPerHectare >= 100 * created.area_hectares
                    /\ a.tree_count * AreaUnitsPerHectare <= 300 * created.area_hectares
                    /\ a.carbon_sequestration_tonnes >= 0
    ]_vars

\* ============================================ claims: the resource API ====

\* project_id names a project of somebody else
ForeignProject(u, project_id) == \E p \in projects : p.id = project_id /\ p.user_id # u.id

\* C1: get_project, update_project and delete_project called by a user with
\* the id of a project owned by somebody else are answered 404 and leave
\* every project, site and analytics row as it was; get_projects returns only
\* projects the caller owns.
C1_ProjectIsolation ==
  [][ \A u \in users :
        /\ \A pid \in ProjectIds :
             ( /\ resp'.user = u.id
               /\ resp'.arg = pid
               /\ ForeignProject(u, pid)
               /\ \/ get_project(u, pid)
                  \/ \E upd \in ProjectUpdateInputs : update_project(u, pid, upd)
                  \/ \E rule \in ProjectDeleteRules : delete_project(u, pid, rule) )
             => /\ resp'.status = HTTP_404_NOT_FOUND
                /\ UNCHANGED <<users, projects, sites, analytics>>
        /\ ( /\ resp'.op = "get_projects"
             /\ resp'.user = u.id
             /\ \E window \in {<<0, 100>>, <<1, 100>>, <<0, 1>>}, page \in SUBSET projects :
                  get_projects(u, window[1], window[2], page) )
           => /\ resp'.status = HTTP_200_OK
              /\ \A r \in Val(resp'.body).projects : r.user_id = u.id
              /\ Val(resp'.body).total = Cardinality({p \in projects : p.user_id = u.id})
    ]_vars

\* a delete of somebody else's project was answered 404, the project still there
C1_Witness ==
  /\ resp.op = "delete_project"
  /\ resp.status = HTTP_404_NOT_FOUND
  /\ \E p \in projects : p.id = resp.arg /\ p.user_id # resp.user

\* C2: get_site, update_site and delete_site answer 404 for a site id that
\* does not exist and 403 for a site whose project the caller does not own,
\* in both cases leaving every row as it was; they succeed only for a caller
\* who owns the site's project.
C2_SiteAccessOrder ==
  [][ \A u \in users, sid \in SiteIds :
        ( /\ resp'.user = u.id
          /\ resp'.arg = sid
          /\ resp'.op \in {"get_site", "update_site", "delete_site"}
          /\ \/ get_site(u, sid)
             \/ \E upd \in SiteUpdateInputs : update_site(u, sid, upd)
             \/ delete_site(u, sid) )
        => LET exists == \E s \in sites : s.id = sid
               owned == \E s \in sites : s.id = sid /\ OwnsProject(u, s.project_id)
           IN  /\ ~exists => (resp'.status = HTTP_404_NOT_FOUND /\ UNCHANGED dbvars)
               /\ (exists /\ ~owned) => (resp'.status = HTTP_403_FORBIDDEN /\ UNCHANGED dbvars)
               /\ resp'.status \in {HTTP_200_OK, HTTP_204_NO_CONTENT} => owned
    ]_vars

\* an update of a site in somebody else's project was answered 403
C2_Witness ==
  /\ resp.op = "update_site"
  /\ resp.status = HTTP_403_FORBIDDEN
  /\ \E s \in sites : s.id = resp.arg /\ ~\E p \in projects : p.id = s.project_id /\ p.user_id = resp.user


\* a project with the one field of a request put in
WithProjectField(p, upd) ==
  IF IsSome(upd.name) THEN [p EXCEPT !.name = Val(upd.name)]
  ELSE [p EXCEPT !.description = upd.description]

\* a site with the one field of a request put in
WithSiteField(st, upd) ==
  IF IsSome(upd.name) THEN [st EXCEPT !.name = Val(upd.name)]
  ELSE IF IsSome(upd.area_hectares) THEN [st EXCEPT !.area_hectares = Val(upd.area_hectares)]
  ELSE IF IsSome(upd.carbon_sequestration_tonnes)
  THEN [st EXCEPT !.carbon_sequestration_tonnes = Val(upd.carbon_sequestration_tonnes)]
  ELSE IF IsSome(upd.biodiversity_score)
  THEN [st EXCEPT !.biodiversity_score = Val(upd.biodiversity_score)]
  ELSE [st EXCEPT !.site_metadata = upd.metadata]

\* the requests that set exactly one field
FieldsSet(upd) == Cardinality({f \in DOMAIN upd : IsSome(upd[f])})
OneFieldProjectUpdates == {upd \in ProjectUpdateInputs : FieldsSet(upd) = 1}
OneFieldSiteUpdates == {upd \in SiteUpdateInputs : FieldsSet(upd) = 1}

\* the step is an update by the owner that set one field of project pid / site sid
OwnerUpdatesProject(u, pid, upd) ==
  /\ resp'.op = "update_project" /\ resp'.user = u.id /\ resp'.arg = pid
  /\ resp'.status = HTTP_200_OK
  /\ update_project(u, pid, upd)
OwnerUpdatesSite(u, sid, upd) ==
  /\ resp'.op = "update_site" /\ resp'.user = u.id /\ resp'.arg = sid
  /\ resp'.status = HTTP_200_OK
  /\ update_site(u, sid, upd)

\* C9 as stated: an update by the owner with exactly one field set changes
\* that field to the given value, leaves every other field of the entity and
\* every other entity unchanged, and sets the entity's updated_at.
C9_PartialUpdate_AsStated ==
  [][ \A u \in users :
        /\ \A pid \in ProjectIds, upd \in OneFieldProjectUpdates :
             OwnerUpdatesProject(u, pid, upd)
             => LET old == CHOOSE p \in projects : p.id = pid IN
                /\ projects' = (projects \ {old})
                                 \cup {[WithProjectField(old, upd) EXCEPT !.updated_at = Some(now)]}
                /\ UNCHANGED <<users, sites, analytics>>
        /\ \A sid \in SiteIds, upd \in OneFieldSiteUpdates :
             OwnerUpdatesSite(u, sid, upd)
             => LET old == CHOOSE st \in sites : st.id = sid IN
                /\ sites' = (sites \ {old})
                              \cup {[WithSiteField(old, upd) EXCEPT !.updated_at = Some(now)]}
                /\ UNCHANGED <<users, projects, analytics>>
    ]_vars

\* C9, amended: such an update changes that field to the given value and
\* leaves every other field of the entity and every other entity unchanged;
\* it sets the entity's updated_at when the given value differs from the
\* stored one, and leaves the entity, updated_at included, as it was when the
\* given value is the stored one.
C9_PartialUpdate ==
  [][ \A u \in users :
        /\ \A pid \in ProjectIds, upd \in OneFieldProjectUpdates :
             OwnerUpdatesProject(u, pid, upd)
             => LET old == CHOOSE p \in projects : p.id = pid
                    new == WithProjectField(old, upd)
                IN  /\ projects' = (projects \ {old})
                         \cup {IF new = old THEN old ELSE [new EXCEPT !.updated_at = Some(now)]}
                    /\ UNCHANGED <<users, sites, analytics>>
        /\ \A sid \in SiteIds, upd \in OneFieldSiteUpdates :
             OwnerUpdatesSite(u, sid, upd)
             => LET old == CHOOSE st \in sites : st.id = sid
                    new == WithSiteField(old, upd)
                IN  /\ sites' = (sites \ {old})
                         \cup {IF new = old THEN old ELSE [new EXCEPT !.updated_at = Some(now)]}
                    /\ UNCHANGED <<users, projects, analytics>>
    ]_vars

\* the owner's update of one of two sites went through and stamped it
C9_Witness ==
  /\ resp.op = "update_site"
  /\ resp.status = HTTP_200_OK
  /\ Cardinality(sites) = 2
  /\ \E st \in sites : st.id = resp.arg /\ st.updated_at = Some(now) /\ st.name = "t"

\* C10: a successful delete_site of a site removes every analytics row of
\* that site and no other row; the site's id never comes back, and every
\* later get_site of it is answered 404.
C10_CascadeDelete ==
  [][ \A u \in users, sid \in SiteIds :
        /\ ( /\ resp'.op = "delete_site" /\ resp'.user = u.id /\ resp'.arg = sid
             /\ resp'.status = HTTP_204_NO_CONTENT
             /\ delete_site(u, sid) )
           => /\ RowsOf(sid, analytics') = {}
              /\ analytics' = analytics \ RowsOf(sid, analytics)
              /\ \A st \in sites' : st.id # sid
        /\ ( sid <= site_seq /\ \A st \in sites : st.id # sid )
           => /\ \A st \in sites' : st.id # sid
              /\ ( /\ resp'.op = "get_site" /\ resp'.user = u.id /\ resp'.arg = sid
                   /\ get_site(u, sid) )
                 => resp'.status = HTTP_404_NOT_FOUND
    ]_vars

\* get_site of a deleted site was answered 404 while the other site, its
\* project and its rows are still there
C10_Witness ==
  /\ resp.op = "get_site"
  /\ resp.status = HTTP_404_NOT_FOUND
  /\ resp.arg <= site_seq
  /\ Cardinality(projects) = project_seq
  /\ \E st \in sites : Cardinality(RowsOf(st.id, analytics)) = ANALYTICS_MONTHS

\* ================================== requests running side by side ====
\* Each request has a session of its own: what its handler read before
\* another request committed is what it acts on afterwards.  A request in
\* flight keeps what its handler holds in local variables.
MaxInflight == 1
Slots == 1..MaxInflight
FreeSlots == Slots \ {r.slot : r \in inflight}

Request(slot, op, stage, user, payload) ==
  [slot |-> slot, op |-> op, stage |-> stage, user |-> user, payload |-> payload,
   row |-> None, loaded_sites |-> {}, loaded_rows |-> {}]

\* ForeignKey("projects.id") of sites.project_id and ForeignKey("sites.id") of
\* site_analytics.site_id: the database refuses a statement that would leave
\* a row without its parent, and the transaction fails.
ForeignKeysUnchecked(project_rows, site_rows, analytics_rows) == TRUE

ForeignKeys(project_rows, site_rows, analytics_rows) ==
  /\ \A s \in site_rows : \E p \in project_rows : p.id = s.project_id
  /\ \A a \in analytics_rows : \E s \in site_rows : s.id = a.site_id

\* create_site up to its db.commit(): the ownership query, the area and the
\* conversion of the geometry
create_site_checks(slot, current_user, site) ==
  LET project == QueryOwnedProject(site.project_id, current_user)
      geom == shape(site.geometry)
  IN
  /\ UNCHANGED <<dbvars, now, held, updates>>
  /\ IF project = {}
     THEN /\ resp' = Response("create_site", current_user.id, 0, HTTP_404_NOT_FOUND, None)
          /\ UNCHANGED inflight
     ELSE IF ~geom.ok
     THEN /\ resp' = Response("create_site", current_user.id, 0, HTTP_400_BAD_REQUEST, None)
          /\ UNCHANGED inflight
     ELSE /\ inflight' = inflight \cup {Request(slot, "create_site", "commit", current_user.id, site)}
          /\ UNCHANGED resp

\* db.add(db_site); db.commit(); db.refresh(db_site), and the except clause
\* that rolls back and answers 500
create_site_commit(r) ==
  LET site == r.payload
      area_hectares == IF AreaSupplied(site) THEN Val(site.area_hectares)
                       ELSE calculate_area_hectares(site.geometry)
      postgis_geom == from_shape(shape(site.geometry), SRID)
      db_site == [id |-> site_seq + 1,
                  name |-> site.name,
                  project_id |-> site.project_id,
                  geometry |-> postgis_geom,
                  area_hectares |-> area_hectares,
                  carbon_sequestration_tonnes |-> OrZero(site.carbon_sequestration_tonnes),
                  biodiversity_score |-> OrZero(site.biodiversity_score),
                  site_metadata |-> site.metadata,
                  created_at |-> now,
                  updated_at |-> None]
  IN
  /\ r.op = "create_site" /\ r.stage = "commit"
  /\ UNCHANGED <<users, user_seq, projects, project_seq, analytics, analytics_seq, now, held, updates>>
  /\ IF InsertAccepted(postgis_geom) /\ ForeignKeys(projects, sites \cup {db_site}, analytics)
     THEN /\ site_seq < MaxSites
          /\ sites' = sites \cup {db_site}
          /\ site_seq' = site_seq + 1
          /\ inflight' = (inflight \ {r}) \cup {[r EXCEPT !.stage = "analytics", !.row = Some(db_site)]}
          /\ UNCHANGED resp
     ELSE /\ UNCHANGED <<sites, site_seq>>
          /\ inflight' = inflight \ {r}
          /\ resp' = Response("create_site", r.user, 0, HTTP_500_INTERNAL_SERVER_ERROR, None)

\* The rest of create_site: the generator and its db.commit() inside the
\* try/except, then the response.  The insert of the 12 rows fails as a whole
\* when the site is gone, which is the "flush_fails" end of the generator.
create_site_analytics(r, stream, gen) ==
  LET db_site == Val(r.row)
      rows == _generate_analytics_for_site(db_site.id, db_site.area_hectares, stream,
                                           analytics_seq + 1, now)
      outcome == IF gen = "ok" /\ ~ForeignKeys(projects, sites, analytics \cup rows)
                 THEN "flush_fails" ELSE gen
      reloaded == IF outcome = "ok" THEN CHOOSE s \in sites : s.id = db_site.id ELSE db_site
      geom_geojson == geometry_to_geojson(reloaded.geometry)
  IN
  /\ r.op = "create_site" /\ r.stage = "analytics"
  /\ UNCHANGED <<users, user_seq, projects, project_seq, sites, site_seq, now, held, updates>>
  /\ inflight' = inflight \ {r}
  /\ IF outcome = "ok"
     THEN /\ analytics' = analytics \cup rows
          /\ analytics_seq' = analytics_seq + ANALYTICS_MONTHS
     ELSE UNCHANGED <<analytics, analytics_seq>>
  /\ IF outcome # "flush_fails" /\ geom_geojson.ok
     THEN resp' = Response("create_site", r.user, db_site.id, HTTP_201_CREATED,
                           Some(SiteResponse(reloaded, geom_geojson)))
     ELSE resp' = Response("create_site", r.user, db_site.id, HTTP_500_INTERNAL_SERVER_ERROR, None)

\* delete_project up to its db.commit(): the ownership query and
\* db.delete(project), which loads the rows the delete cascades to
delete_project_checks(slot, current_user, project_id, rule) ==
  LET found == QueryOwnedProject(project_id, current_user)
      children == SitesOf(project_id)
  IN
  /\ UNCHANGED <<dbvars, now, held, updates>>
  /\ IF found = {}
     THEN /\ resp' = Response("delete_project", current_user.id, project_id, HTTP_404_NOT_FOUND, None)
          /\ UNCHANGED inflight
     ELSE /\ inflight' = inflight \cup
               {[Request(slot, "delete_project", "commit", current_user.id,
                         [project_id |-> project_id, rule |-> rule])
                   EXCEPT !.loaded_sites = {s.id : s \in children},
                          !.loaded_rows = IF rule = "cascade"
                                          THEN {a.id : a \in {b \in analytics :
                                                  b.site_id \in {s.id : s \in children}}}
                                          ELSE {}]}
          /\ UNCHANGED resp

\* db.commit() of delete_project: the DELETEs of the loaded rows and of the
\* project in one transaction; nothing catches its failure
delete_project_commit(r) ==
  LET project_rows == {p \in projects : p.id # r.payload.project_id}
      site_rows == {s \in sites : s.id \notin r.loaded_sites}
      analytics_rows == {a \in analytics : a.id \notin r.loaded_rows}
      refused == \/ r.payload.rule = "restrict" /\ r.loaded_sites # {}
                 \/ ~ForeignKeys(project_rows, site_rows, analytics_rows)
  IN
  /\ r.op = "delete_project" /\ r.stage = "commit"
  /\ UNCHANGED <<users, user_seq, project_seq, site_seq, analytics_seq, now, held, updates>>
  /\ inflight' = inflight \ {r}
  /\ IF refused
     THEN /\ UNCHANGED <<projects, sites, analytics>>
          /\ resp' = Response("delete_project", r.user, r.payload.project_id,
                              HTTP_500_INTERNAL_SERVER_ERROR, None)
     ELSE /\ projects' = project_rows
          /\ sites' = site_rows
          /\ analytics' = analytics_rows
          /\ resp' = Response("delete_project", r.user, r.payload.project_id,
                              HTTP_204_NO_CONTENT, None)

\* ------------------------------------ the resource API, requests interleaved
NextSlot == CHOOSE slot \in FreeSlots : \A other \in FreeSlots : slot <= other

BeginCreateSite ==
  /\ FreeSlots # {}
  /\ \E u \in users, site \in SiteCreateInputs : create_site_checks(NextSlot, u, site)
CommitCreateSite == \E r \in inflight : create_site_commit(r)
GenerateAnalytics ==
  \E r \in inflight, gen \in GeneratorOutcomes : create_site_analytics(r, MixedStream, gen)
BeginDeleteProject ==
  /\ FreeSlots # {}
  /\ \E u \in users, pid \in ProjectIds, rule \in ProjectDeleteRules :
        delete_project_checks(NextSlot, u, pid, rule)
CommitDeleteProject == \E r \in inflight : delete_project_commit(r)

\* a request runs either in one piece or in its steps, with the requests of
\* other sessions in between
NextInterleaved ==
  \/ DoRegisterOwner \/ DoCreateOwnerProject
  \/ DoCreateSite \/ BeginCreateSite \/ CommitCreateSite \/ GenerateAnalytics
  \/ DoDeleteProject \/ BeginDeleteProject \/ CommitDeleteProject
  \/ DoDeleteSite
SpecInterleaved == Init /\ [][NextInterleaved]_vars

\* the life of a site and of its analytics: created in steps, its area (the
\* input of the generator) updated, deleted alone or with its project
NextSeeding ==
  \/ DoRegisterOwner \/ DoCreateOwnerProject
  \/ DoCreateSite \/ BeginCreateSite \/ CommitCreateSite \/ GenerateAnalytics
  \/ DoUpdateSiteArea \/ DoDeleteSite \/ DoDeleteProject
SpecSeeding == Init /\ [][NextSeeding]_vars

\* ========================================= claims: referential integrity ===

\* C11: in every reachable state every site's project_id is the id of an
\* existing project and every analytics row's site_id is the id of an
\* existing site, whatever the order in which the steps of create_site and
\* delete_project requests are taken.
C11_ReferentialIntegrity ==
  /\ \A s \in sites : s.project_id \in {p.id : p \in projects}
  /\ \A a \in analytics : a.site_id \in {s.id : s \in sites}

\* a create_site request passed its ownership check, its project was deleted
\* before its commit, and the commit was refused; an earlier site went with
\* its project
C11_Witness ==
  /\ resp.op = "create_site" /\ resp.status = HTTP_500_INTERNAL_SERVER_ERROR /\ resp.arg = 0
  /\ site_seq >= 1 /\ sites = {}
  /\ analytics_seq >= ANALYTICS_MONTHS /\ analytics = {}
  /\ projects = {}

\* ================================================ passwords and login ====
\* passwords as byte strings: at the limit of bcrypt, one byte past it in two
\* ways, and two bytes past it
Password72 == [i \in 1..BCRYPT_MAX_BYTES |-> 1]
Password73a == Password72 \o <<1>>
Password73b == Password72 \o <<2>>
Password74 == Password72 \o <<1, 2>>
PasswordInputs == {Password1, Password2, Password72, Password73a, Password73b, Password74}

\* names as a client may type them, with and without surrounding blanks
UsernameInputs == {<<"a">>, <<" ", "a">>, <<"b">>}
UserCreateAnyInputs ==
  { [email |-> n, username |-> n, password |-> p, full_name |-> None] :
      n \in UsernameInputs, p \in PasswordInputs }
UserLoginAnyInputs ==
  { [username |-> n, password |-> p] :
      n \in UsernameInputs \cup {<<" ", "a", " ">>, <<" ">>, <<>>}, p \in PasswordInputs }

DoRegisterAny ==
  /\ UNCHANGED inflight
  /\ \E user_data \in UserCreateAnyInputs, salt \in Salts : register(user_data, salt)
DoLoginAny ==
  /\ UNCHANGED inflight
  /\ \E c \in UserLoginAnyInputs, lib \in BcryptLibs : login(c, lib)

NextLogin == DoRegisterAny \/ DoLoginAny \/ DoMe
SpecLogin == Init /\ [][NextLogin]_vars

\* ============================================== claims: password hashes ===

\* p and q agree on their first 72 bytes and differ afterwards
AgreeOnFirst72(p, q) ==
  /\ Len(p) >= BCRYPT_MAX_BYTES /\ Len(q) >= BCRYPT_MAX_BYTES
  /\ SubSeq(p, 1, BCRYPT_MAX_BYTES) = SubSeq(q, 1, BCRYPT_MAX_BYTES)
  /\ p # q

\* the hash stored for u is the hash of password p
HashOf(u, p) == u.hashed_password = Some(get_password_hash(p, Val(u.hashed_password).salt))

\* C12 as stated: two passwords that agree on their first 72 bytes and differ
\* afterwards get the same answer from verify_password against every stored
\* hash, and both verify against the stored hash of either of them.
C12_HashTruncation_AsStated ==
  \A p \in PasswordInputs, q \in PasswordInputs :
    AgreeOnFirst72(p, q) =>
      \A u \in users, lib \in BcryptLibs :
        /\ verify_password(p, u.hashed_password, lib) = verify_password(q, u.hashed_password, lib)
        /\ HashOf(u, p) => /\ verify_password(p, u.hashed_password, lib)
                           /\ verify_password(q, u.hashed_password, lib)

\* ================================================== claims: the login ===

\* C13 as stated: login with a name that, trimmed, is the username of a user,
\* and with that user's password, is answered 200 with a bearer token whose
\* subject is that username; login with a name that is empty once trimmed or
\* matches no user, or with a password that is not the user's, is answered 401.
C13_LoginWhitespace_AsStated ==
  [][ \A c \in UserLoginAnyInputs, lib \in BcryptLibs :
        login(c, lib) =>
          LET username == Strip(c.username) IN
          IF username # <<>> /\ \E u \in users : u.username = username /\ HashOf(u, c.password)
          THEN /\ resp'.status = HTTP_200_OK
               /\ Val(resp'.body).token_type = "bearer"
               /\ Val(resp'.body).access_token.sub = Some(username)
          ELSE resp'.status = HTTP_401_UNAUTHORIZED
    ]_vars

\* C15 as stated: for a user created by register with username u and
\* password p, a login with exactly u and p is answered 200 and the token it
\* returns resolves through get_current_user to that user.
C15_RegisterLoginRoundTrip_AsStated ==
  [][ \A c \in UserLoginAnyInputs, lib \in BcryptLibs :
        login(c, lib) =>
          \A u \in users :
            u.username = c.username /\ HashOf(u, c.password)
            => /\ resp'.status = HTTP_200_OK
               /\ get_current_user(Val(resp'.body).access_token, now) = Some(u)
    ]_vars

\* ============================================ register, side by side ====

\* users.email and users.username are unique columns: the database refuses
\* the insert of a second row with either, and the transaction fails.
UniqueIdentitiesUnchecked(user_rows) == TRUE

UniqueIdentities(user_rows) ==
  \A u \in user_rows, v \in user_rows :
     u.id # v.id => u.email # v.email /\ u.username # v.username

\* register up to the construction of the User: the existence query
register_checks(slot, user_data) ==
  /\ UNCHANGED <<dbvars, now, held, updates>>
  /\ IF RegisterDuplicate(user_data) # {}
     THEN /\ resp' = Response("register", 0, 0, HTTP_400_BAD_REQUEST, None)
          /\ UNCHANGED inflight
     ELSE /\ inflight' = inflight \cup {Request(slot, "register", "commit", 0, user_data)}
          /\ UNCHANGED resp

\* the hash, db.add(db_user), db.commit() and db.refresh(db_user); nothing
\* catches a failure of the commit
register_commit(r, salt) ==
  LET user_data == r.payload
      db_user == [id |-> user_seq + 1,
                  email |-> user_data.email,
                  username |-> user_data.username,
                  hashed_password |-> Some(get_password_hash(user_data.password, salt)),
                  full_name |-> user_data.full_name]
  IN
  /\ r.op = "register" /\ r.stage = "commit"
  /\ UNCHANGED <<projects, project_seq, sites, site_seq, analytics, analytics_seq, now, held, updates>>
  /\ inflight' = inflight \ {r}
  /\ IF UniqueIdentities(users \cup {db_user})
     THEN /\ user_seq < MaxUsers
          /\ users' = users \cup {db_user}
          /\ user_seq' = user_seq + 1
          /\ resp' = Response("register", 0, 0, HTTP_201_CREATED, Some(UserResponse(db_user)))
     ELSE /\ UNCHANGED <<users, user_seq>>
          /\ resp' = Response("register", 0, 0, HTTP_500_INTERNAL_SERVER_ERROR, None)

BeginRegister ==
  /\ FreeSlots # {}
  /\ \E user_data \in UserCreateInputs : register_checks(NextSlot, user_data)
CommitRegister == \E r \in inflight, salt \in Salts : register_commit(r, salt)

NextRegisterInterleaved == DoRegisterAuth \/ BeginRegister \/ CommitRegister
SpecRegisterInterleaved == Init /\ [][NextRegisterInterleaved]_vars

\* =========================================== claims: unique identities ===

\* C14: in every reachable state no two users share an e-mail and no two
\* users share a username, also when register requests carrying the same
\* e-mail or username pass the existence check before either commits: of
\* requests in flight that share one, at most one creates a user.
C14_IdentityUniqueness ==
  \A u \in users, v \in users :
     u # v => u.email # v.email /\ u.username # v.username

\* two requests with the same e-mail or username were in flight together; one
\* created its user and the commit of the other was refused
C14_Witness ==
  /\ resp.op = "register" /\ resp.status = HTTP_500_INTERNAL_SERVER_ERROR
  /\ Cardinality(users) = 1
  /\ inflight = {}

\* ============================================ claims: analytics seeding ===

\* C16: in every reachable state each site has either exactly 12 analytics
\* rows or none, whatever sites were created, updated and deleted, however
\* the generator ended, and however the steps of the requests were ordered.
C16_SeedingAllOrNothing ==
  \A s \in sites : Cardinality(RowsOf(s.id, analytics)) \in {0, ANALYTICS_MONTHS}

\* one site carries its 12 rows; the generator of another failed at its
\* commit and left it with none
C16_Witness ==
  /\ inflight = {}
  /\ resp.op = "create_site" /\ resp.status = HTTP_500_INTERNAL_SERVER_ERROR
  /\ \E s \in sites, other \in sites :
        /\ s.id = resp.arg
        /\ Cardinality(RowsOf(s.id, analytics)) = 0
        /\ Cardinality(RowsOf(other.id, analytics)) = ANALYTICS_MONTHS
====
